---- MODULE Spec2Model ----
(***************************************************************************)
(* Model of azul-plugin-dotnet-deob: AzulPluginDotnetDeob.execute          *)
(* (main.py) and the Deobfuscator adapters with their process runner       *)
(* _deobfuscate (deob/deobfuscators.py).                                   *)
(*                                                                         *)
(* A file path inside the scratch directory is the sequence of tokens of   *)
(* its base name; "." is a token of its own and every other token is a     *)
(* dot-free piece of text.  The tokens used start with different           *)
(* characters, so two token sequences are equal exactly when the strings   *)
(* they spell are equal.                                                   *)
(*                                                                         *)
(* The text of an error message is modelled by its fixed part and the set  *)
(* of known tool phrases that occur in the captured stderr/stdout embedded *)
(* in it; re.search of a pattern is the occurrence of its phrase.          *)
(***************************************************************************)
EXTENDS Integers, Sequences, FiniteSets, TLC

VARIABLES
    pe,                 \* what pefile.PE makes of the input file
    in_file_name,       \* os.path.basename(in_file_path)
    cfg,                \* self.cfg.deobfuscators
    pc,                 \* position inside execute
    idx,                \* position of the for loop in AVAILABLE_DEOBFUSCATORS
    cur_dir_exists,     \* the TemporaryDirectory exists
    files,              \* files present in cur_dir
    newest_file_path,
    successful_deobs,
    failed_deobs,
    error_type,
    classified,         \* the else branch of line 92 has computed error_type
    result,             \* the State returned by execute (or the escaping exception)
    malformed,          \* self.is_malformed was called
    child,              \* arguments of add_child_with_data_file, NoChild before
    calls,              \* every deob.deobfuscate invocation so far, in order
    last_run            \* what the most recent external process did

vars == <<pe, in_file_name, cfg, pc, idx, cur_dir_exists, files, newest_file_path,
          successful_deobs, failed_deobs, error_type, classified, result,
          malformed, child, calls, last_run>>

\* Python's None, by the type of the value that is absent.
None == "None"
NoPath == <<>>
NoError == [text |-> None, embedded |-> {}]
NoState == [label |-> None, failure_name |-> None, message |-> None]
NoChild == [data_file |-> NoPath, action |-> None, deobfuscated_by |-> <<>>]

(***************************************************************************)
(* Bounds                                                                  *)
(***************************************************************************)
MaxCfgLen == 3
MaxPhrases == 2

(***************************************************************************)
(* deobfuscators.py: failure kinds, adapters, registry                     *)
(***************************************************************************)
NotValidDotnetFile == "NotValidDotnetFile"
DotnetFileContentLengthMismatch == "DotnetFileContentLengthMismatch"
DeobFailTypes == {NotValidDotnetFile, DotnetFileContentLengthMismatch}

UnscramblerKey == "unscrambler"
ConfuserExSSDKey == "ConfuserExSSD"
De4dotCexKey == "de4dotcex"

AVAILABLE_DEOBFUSCATORS == <<UnscramblerKey, ConfuserExSSDKey, De4dotCexKey>>

RegisteredKeys == {AVAILABLE_DEOBFUSCATORS[i] : i \in 1..Len(AVAILABLE_DEOBFUSCATORS)}

display_name(k) ==
    CASE k = De4dotCexKey -> "de4dot-cex"
      [] k = ConfuserExSSDKey -> "ConfuserEx-Static-String-Decryptor"
      [] k = UnscramblerKey -> "unscrambler"

FormatInvalid == "Format of the executable (.exe) or library (.dll) is invalid."
NotEnoughBytes == "There's not enough bytes left to read"
NoMetadataDirectory == "PE image does not contain a .NET metadata directory"
FileOffsetOutOfRange == "Specified argument was out of the range of valid values. (Parameter 'fileOffset')"

Phrases == {FormatInvalid, NotEnoughBytes, NoMetadataDirectory, FileOffsetOutOfRange}

ExceptionMapping(p, t) == [regex_pattern |-> p, fail_type |-> t]

regex_exception_mappings(k) ==
    CASE k = De4dotCexKey ->
            <<ExceptionMapping(FormatInvalid, NotValidDotnetFile)>>
      [] k = ConfuserExSSDKey ->
            <<ExceptionMapping(FormatInvalid, NotValidDotnetFile),
              ExceptionMapping(NotEnoughBytes, DotnetFileContentLengthMismatch)>>
      [] k = UnscramblerKey ->
            <<ExceptionMapping(NoMetadataDirectory, NotValidDotnetFile),
              ExceptionMapping(FileOffsetOutOfRange, DotnetFileContentLengthMismatch)>>

(***************************************************************************)
(* Paths                                                                   *)
(***************************************************************************)
Max(S) == CHOOSE x \in S : \A y \in S : y <= x

\* os.path.splitext: split at the last dot of the base name unless only
\* dots precede it.
splitext(p) ==
    LET dots == {i \in 1..Len(p) : p[i] = "."}
    IN  IF dots = {} THEN <<p, <<>>>>
        ELSE LET d == Max(dots)
             IN  IF \E i \in 1..(d - 1) : p[i] # "."
                 THEN <<SubSeq(p, 1, d - 1), SubSeq(p, d, Len(p))>>
                 ELSE <<p, <<>>>>

\* Line 126 putting the text in front of the extension.
expected_out_file_loc_BeforeExt(k, in_file_path) ==
    CASE k = De4dotCexKey -> in_file_path \o <<"deob-cex">>
      [] k = ConfuserExSSDKey ->
            splitext(in_file_path)[1] \o <<"Cleaned", ".", "exe">> \o splitext(in_file_path)[2]
      [] k = UnscramblerKey ->
            splitext(in_file_path)[1] \o <<"_unscrambled">> \o splitext(in_file_path)[2]

\* Line 155 without the "_unscrambled" part.
expected_out_file_loc_InPlace(k, in_file_path) ==
    CASE k = De4dotCexKey -> in_file_path \o <<"deob-cex">>
      [] k = ConfuserExSSDKey -> in_file_path \o <<"Cleaned", ".", "exe">>
      [] k = UnscramblerKey -> splitext(in_file_path)[1] \o splitext(in_file_path)[2]

expected_out_file_loc(k, in_file_path) ==
    CASE k = De4dotCexKey -> in_file_path \o <<"deob-cex">>
      [] k = ConfuserExSSDKey -> in_file_path \o <<"Cleaned", ".", "exe">>
      [] k = UnscramblerKey ->
            splitext(in_file_path)[1] \o <<"_unscrambled">> \o splitext(in_file_path)[2]

(***************************************************************************)
(* Process runner                                                          *)
(***************************************************************************)
TIMEOUT == 60

OSErrorText == "OSError occured while deobfuscating."
TimedOutText == "Timed out while deobfuscating."
UnexpectedErrorText == "An unexpected error occurred when deobfuscating."
MissingOutputText == "Failed to produce the expected output file"

\* One run of the external command as subprocess.run and the file system
\* see it: whether it could be started, how long it took, its exit status,
\* the known phrases in its stderr/stdout, whether it wrote the expected
\* output file, and whether a directory named like the expected file
\* exists in the working directory of the plugin.
ProcessRun(started, elapsed, returncode, output, wrote, listable) ==
    [started |-> started, elapsed |-> elapsed, returncode |-> returncode,
     output |-> output, wrote |-> wrote, listable |-> listable]

Outputs == {S \in SUBSET Phrases : Cardinality(S) <= MaxPhrases}

ProcessRuns ==
    {ProcessRun(FALSE, 0, 0, {}, FALSE, FALSE)}
    \cup {ProcessRun(TRUE, TIMEOUT + 1, 0, {}, w, FALSE) : w \in BOOLEAN}
    \cup {ProcessRun(TRUE, 1, 1, o, FALSE, FALSE) : o \in Outputs}
    \cup {ProcessRun(TRUE, 1, 1, {}, TRUE, FALSE)}
    \cup {ProcessRun(TRUE, 1, 0, {}, TRUE, FALSE)}
    \cup {ProcessRun(TRUE, 1, 0, {}, FALSE, l) : l \in BOOLEAN}

Returned(path, error) == [kind |-> "return", path |-> path, error |-> error]
Raised(exc) == [kind |-> "raise", path |-> NoPath, error |-> [text |-> exc, embedded |-> {}]]

ErrorMessage(text, embedded) == [text |-> text, embedded |-> embedded]

\* Files in cur_dir once the process is over.
FilesAfter(run, expected, fs) ==
    IF run.started /\ run.wrote THEN fs \cup {expected} ELSE fs

\* _deobfuscate without the except clause of lines 77-78.
_deobfuscate_NoTimeoutHandler(run, expected, fs) ==
    IF ~run.started THEN Returned(NoPath, ErrorMessage(OSErrorText, {}))
    ELSE IF run.elapsed > TIMEOUT THEN Raised("TimeoutExpired")
    ELSE IF run.returncode # 0
         THEN Returned(NoPath, ErrorMessage(UnexpectedErrorText, run.output))
    ELSE IF expected \in FilesAfter(run, expected, fs) THEN Returned(expected, NoError)
    ELSE IF ~run.listable THEN Returned(NoPath, ErrorMessage(OSErrorText, {}))
    ELSE Raised("TypeError")

\* _deobfuscate with lines 67-68 ahead of lines 61-65.
_deobfuscate_ExistsFirst(run, expected, fs) ==
    IF ~run.started THEN Returned(NoPath, ErrorMessage(OSErrorText, {}))
    ELSE IF run.elapsed > TIMEOUT THEN Returned(NoPath, ErrorMessage(TimedOutText, {}))
    ELSE IF expected \in FilesAfter(run, expected, fs) THEN Returned(expected, NoError)
    ELSE IF run.returncode # 0
         THEN Returned(NoPath, ErrorMessage(UnexpectedErrorText, run.output))
    ELSE IF ~run.listable THEN Returned(NoPath, ErrorMessage(OSErrorText, {}))
    ELSE Raised("TypeError")

\* _deobfuscate returning (None, None) when the output file is missing.
_deobfuscate_NoMessage(run, expected, fs) ==
    IF ~run.started THEN Returned(NoPath, ErrorMessage(OSErrorText, {}))
    ELSE IF run.elapsed > TIMEOUT THEN Returned(NoPath, ErrorMessage(TimedOutText, {}))
    ELSE IF run.returncode # 0
         THEN Returned(NoPath, ErrorMessage(UnexpectedErrorText, run.output))
    ELSE IF expected \in FilesAfter(run, expected, fs) THEN Returned(expected, NoError)
    ELSE Returned(NoPath, NoError)

_deobfuscate(run, expected, fs) ==
    IF ~run.started THEN Returned(NoPath, ErrorMessage(OSErrorText, {}))
    ELSE IF run.elapsed > TIMEOUT THEN Returned(NoPath, ErrorMessage(TimedOutText, {}))
    ELSE IF run.returncode # 0
         THEN Returned(NoPath, ErrorMessage(UnexpectedErrorText, run.output))
    ELSE IF expected \in FilesAfter(run, expected, fs) THEN Returned(expected, NoError)
    ELSE IF ~run.listable THEN Returned(NoPath, ErrorMessage(OSErrorText, {}))
    ELSE Raised("TypeError")

deobfuscate(k, in_file_path, run, fs) ==
    _deobfuscate(run, expected_out_file_loc(k, in_file_path), fs)

(***************************************************************************)
(* main.py: execute                                                        *)
(***************************************************************************)
Range(s) == {s[i] : i \in 1..Len(s)}

\* f"Deobfuscator {deob.display_name} failed with error: " + error
FailedMessage(k, error) == [deob |-> display_name(k), error |-> error]

\* re.compile(pattern).search(msg) is not None
search(pattern, msg) == pattern \in msg.error.embedded

\* The inner loop without the break of line 101.
RECURSIVE MappingLoop_NoBreak(_, _, _, _)
MappingLoop_NoBreak(mappings, i, msg, et) ==
    IF i > Len(mappings) THEN et
    ELSE MappingLoop_NoBreak(mappings, i + 1, msg,
                             IF search(mappings[i].regex_pattern, msg)
                             THEN mappings[i].fail_type ELSE et)

\* The inner loop of lines 96-101 for one failed deobfuscator: the fail type
\* of the first mapping that matches, or the incoming error_type.
RECURSIVE MappingLoop(_, _, _, _)
MappingLoop(mappings, i, msg, et) ==
    IF i > Len(mappings) THEN et
    ELSE IF search(mappings[i].regex_pattern, msg) THEN mappings[i].fail_type
    ELSE MappingLoop(mappings, i + 1, msg, et)

\* The outer loop with a break once a mapping has matched.
RECURSIVE FailedLoop_FirstMatch(_, _, _)
FailedLoop_FirstMatch(failed, i, et) ==
    IF i > Len(failed) \/ et # None THEN et
    ELSE FailedLoop_FirstMatch(failed, i + 1,
                    MappingLoop(regex_exception_mappings(failed[i][1]), 1, failed[i][2], et))

\* The outer loop of lines 95-101 from position i on.
RECURSIVE FailedLoop(_, _, _)
FailedLoop(failed, i, et) ==
    IF i > Len(failed) THEN et
    ELSE FailedLoop(failed, i + 1,
                    MappingLoop(regex_exception_mappings(failed[i][1]), 1, failed[i][2], et))

ErrorType(failed) == FailedLoop(failed, 1, None)

\* Line 86 requiring that nothing failed.
HasSuccess_NothingFailed(successful) == Len(successful) > 0 /\ failed_deobs = <<>>

\* Line 86.
HasSuccess(successful) == Len(successful) > 0

\* Lines 103-114 with the two comparisons exchanged.
Branch_Swapped(et) ==
    IF et = DotnetFileContentLengthMismatch THEN "opt_out"
    ELSE IF et = NotValidDotnetFile THEN "malformed"
    ELSE "completed_empty"

\* Lines 103-114: which return a classification leads to.
Branch(et) ==
    IF et = NotValidDotnetFile THEN "opt_out"
    ELSE IF et = DotnetFileContentLengthMismatch THEN "malformed"
    ELSE "completed_empty"

State(label, failure_name, message) ==
    [label |-> label, failure_name |-> failure_name, message |-> message]

UnknownKey == "not-a-deobfuscator"
ConfigKeys == RegisteredKeys \cup {UnknownKey}
Configs == UNION {[1..n -> ConfigKeys] : n \in 0..MaxCfgLen}

InFileNames == {<<"a", ".", "exe">>}

\* pefile.PE(in_file_path): a PEFormatError, or the number of data
\* directories and the VirtualAddress of entry 14.
PEFiles ==
    {[parsed |-> FALSE, num_dirs |-> 0, va14 |-> 0]}
    \cup {[parsed |-> TRUE, num_dirs |-> 14, va14 |-> 0]}
    \cup {[parsed |-> TRUE, num_dirs |-> 16, va14 |-> v] : v \in {0, 8192}}

Init ==
    /\ pe \in PEFiles
    /\ in_file_name \in InFileNames
    /\ cfg \in Configs
    /\ pc = "precheck"
    /\ idx = 0
    /\ cur_dir_exists = FALSE
    /\ files = {}
    /\ newest_file_path = NoPath
    /\ successful_deobs = <<>>
    /\ failed_deobs = <<>>
    /\ error_type = None
    /\ classified = FALSE
    /\ result = NoState
    /\ malformed = FALSE
    /\ child = NoChild
    /\ calls = <<>>
    /\ last_run = ProcessRun(FALSE, 0, 0, {}, FALSE, FALSE)

\* Lines 56-59 with `and` in place of `or`.
NotDotnet_Both(p) == p.num_dirs < 15 /\ p.va14 = 0

NotDotnet(p) == p.num_dirs < 15 \/ p.va14 = 0

PrecheckPEFormatError ==
    /\ pc = "precheck"
    /\ ~pe.parsed
    /\ result' = State("ERROR_EXCEPTION", "Error while parsing PE", "traceback")
    /\ pc' = "done"
    /\ UNCHANGED <<pe, in_file_name, cfg, idx, cur_dir_exists, files, newest_file_path,
                   successful_deobs, failed_deobs, error_type, classified,
                   malformed, child, calls, last_run>>

PrecheckOptOut ==
    /\ pc = "precheck"
    /\ pe.parsed
    /\ NotDotnet(pe)
    /\ result' = State("OPT_OUT", None, "Not a .NET assembly")
    /\ pc' = "done"
    /\ UNCHANGED <<pe, in_file_name, cfg, idx, cur_dir_exists, files, newest_file_path,
                   successful_deobs, failed_deobs, error_type, classified,
                   malformed, child, calls, last_run>>

\* Lines 66-73: the lists, the scratch directory, the copy.
EnterTempDir ==
    /\ pc = "precheck"
    /\ pe.parsed
    /\ ~NotDotnet(pe)
    /\ cur_dir_exists' = TRUE
    /\ files' = {in_file_name}
    /\ newest_file_path' = in_file_name
    /\ successful_deobs' = <<>>
    /\ failed_deobs' = <<>>
    /\ idx' = 1
    /\ pc' = "loop"
    /\ UNCHANGED <<pe, in_file_name, cfg, error_type, classified, result,
                   malformed, child, calls, last_run>>

InLoop == pc = "loop" /\ idx <= Len(AVAILABLE_DEOBFUSCATORS)

\* Lines 86-114 indented into the for loop.
AfterLoop_Early == pc = "loop"

AfterLoop == pc = "loop" /\ idx > Len(AVAILABLE_DEOBFUSCATORS)

\* Line 75 taking an empty list for "no restriction".
Selected_EmptyMeansAll(k) == cfg = <<>> \/ k \in Range(cfg)

\* Line 75 giving up on a list that holds a key of no deobfuscator.
Selected_OnlyKnownLists(k) == k \in Range(cfg) /\ Range(cfg) \subseteq RegisteredKeys

Selected(k) == k \in Range(cfg)

\* Lines 75-76.
SkipDeob ==
    /\ InLoop
    /\ ~Selected(AVAILABLE_DEOBFUSCATORS[idx])
    /\ idx' = idx + 1
    /\ UNCHANGED <<pe, in_file_name, cfg, pc, cur_dir_exists, files, newest_file_path,
                   successful_deobs, failed_deobs, error_type, classified, result,
                   malformed, child, calls, last_run>>

Call(k, in_file_path, res) == [deob |-> k, in_file_path |-> in_file_path, res |-> res]

\* Line 83 left out.
NewestOnSuccess_NotAdvanced(old, result_file_path) == old

\* Line 83.
NewestOnSuccess(old, result_file_path) == result_file_path

\* Lines 79-81 leave newest_file_path alone.
NewestOnFailure(old) == old

\* Line 84 inserting at the front.
AppendSuccessful_Front(successful, deob) == <<display_name(deob)>> \o successful

\* Line 84.
AppendSuccessful(successful, deob) == Append(successful, display_name(deob))

\* Line 80.
AppendFailed(failed, deob, error) == Append(failed, <<deob, FailedMessage(deob, error)>>)

\* Lines 78-84 when deobfuscate returns a path.
DeobSucceeded ==
    /\ InLoop
    /\ Selected(AVAILABLE_DEOBFUSCATORS[idx])
    /\ \E run \in ProcessRuns :
         LET deob == AVAILABLE_DEOBFUSCATORS[idx]
             res == deobfuscate(deob, newest_file_path, run, files)
         IN  /\ res.kind = "return"
             /\ res.path # NoPath
             /\ files' = FilesAfter(run, expected_out_file_loc(deob, newest_file_path), files)
             /\ newest_file_path' = NewestOnSuccess(newest_file_path, res.path)
             /\ successful_deobs' = AppendSuccessful(successful_deobs, deob)
             /\ calls' = Append(calls, Call(deob, newest_file_path, res))
             /\ last_run' = run
    /\ idx' = idx + 1
    /\ UNCHANGED <<pe, in_file_name, cfg, pc, cur_dir_exists, failed_deobs, error_type,
                   classified, result, malformed, child>>

\* Lines 78-81 when deobfuscate returns (None, error).
DeobFailed ==
    /\ InLoop
    /\ Selected(AVAILABLE_DEOBFUSCATORS[idx])
    /\ \E run \in ProcessRuns :
         LET deob == AVAILABLE_DEOBFUSCATORS[idx]
             res == deobfuscate(deob, newest_file_path, run, files)
         IN  /\ res.kind = "return"
             /\ res.path = NoPath
             /\ files' = FilesAfter(run, expected_out_file_loc(deob, newest_file_path), files)
             /\ newest_file_path' = NewestOnFailure(newest_file_path)
             /\ failed_deobs' = AppendFailed(failed_deobs, deob, res.error)
             /\ calls' = Append(calls, Call(deob, newest_file_path, res))
             /\ last_run' = run
    /\ idx' = idx + 1
    /\ UNCHANGED <<pe, in_file_name, cfg, pc, cur_dir_exists, successful_deobs, error_type,
                   classified, result, malformed, child>>

\* Line 78 when an exception escapes deobfuscate: it leaves the for loop
\* and the with block.
DeobRaised ==
    /\ InLoop
    /\ Selected(AVAILABLE_DEOBFUSCATORS[idx])
    /\ \E run \in ProcessRuns :
         LET deob == AVAILABLE_DEOBFUSCATORS[idx]
             res == deobfuscate(deob, newest_file_path, run, files)
         IN  /\ res.kind = "raise"
             /\ files' = FilesAfter(run, expected_out_file_loc(deob, newest_file_path), files)
             /\ calls' = Append(calls, Call(deob, newest_file_path, res))
             /\ last_run' = run
             /\ result' = State("EXCEPTION", res.error.text, None)
    /\ pc' = "exit_with"
    /\ UNCHANGED <<pe, in_file_name, cfg, idx, cur_dir_exists, newest_file_path,
                   successful_deobs, failed_deobs, error_type, classified,
                   malformed, child>>

\* Lines 86-91.
AddChild ==
    /\ AfterLoop
    /\ HasSuccess(successful_deobs)
    /\ child' = [data_file |-> newest_file_path, action |-> "deobfuscated",
                 deobfuscated_by |-> successful_deobs]
    /\ result' = State("COMPLETED", None, None)
    /\ pc' = "exit_with"
    /\ UNCHANGED <<pe, in_file_name, cfg, idx, cur_dir_exists, files, newest_file_path,
                   successful_deobs, failed_deobs, error_type, classified,
                   malformed, calls, last_run>>

\* Lines 92-104.
ReturnOptOut ==
    /\ AfterLoop
    /\ ~HasSuccess(successful_deobs)
    /\ Branch(ErrorType(failed_deobs)) = "opt_out"
    /\ error_type' = ErrorType(failed_deobs)
    /\ classified' = TRUE
    /\ result' = State("OPT_OUT", None, "Deobfuscators detect file as not a valid dotnet file.")
    /\ pc' = "exit_with"
    /\ UNCHANGED <<pe, in_file_name, cfg, idx, cur_dir_exists, files, newest_file_path,
                   successful_deobs, failed_deobs, malformed, child, calls, last_run>>

\* Lines 92-101, 105-108.
ReturnMalformed ==
    /\ AfterLoop
    /\ ~HasSuccess(successful_deobs)
    /\ Branch(ErrorType(failed_deobs)) = "malformed"
    /\ error_type' = ErrorType(failed_deobs)
    /\ classified' = TRUE
    /\ malformed' = TRUE
    /\ result' = State("COMPLETED", None, None)
    /\ pc' = "exit_with"
    /\ UNCHANGED <<pe, in_file_name, cfg, idx, cur_dir_exists, files, newest_file_path,
                   successful_deobs, failed_deobs, child, calls, last_run>>

\* Lines 92-101, 110-114.
ReturnCompletedEmpty ==
    /\ AfterLoop
    /\ ~HasSuccess(successful_deobs)
    /\ Branch(ErrorType(failed_deobs)) = "completed_empty"
    /\ error_type' = ErrorType(failed_deobs)
    /\ classified' = TRUE
    /\ result' = State("COMPLETED_EMPTY", "no-deobfuscation-processed",
                       "Could not run any of the deobfuscators.")
    /\ pc' = "exit_with"
    /\ UNCHANGED <<pe, in_file_name, cfg, idx, cur_dir_exists, files, newest_file_path,
                   successful_deobs, failed_deobs, malformed, child, calls, last_run>>

\* Leaving execute with the directory left behind.
ExitTempDir_KeepsDir ==
    /\ pc = "exit_with"
    /\ pc' = "done"
    /\ UNCHANGED <<pe, in_file_name, cfg, idx, cur_dir_exists, files, newest_file_path,
                   successful_deobs, failed_deobs, error_type, classified, result,
                   malformed, child, calls, last_run>>

\* Leaving the with block of line 69 removes the TemporaryDirectory.
ExitTempDir ==
    /\ pc = "exit_with"
    /\ cur_dir_exists' = FALSE
    /\ files' = {}
    /\ pc' = "done"
    /\ UNCHANGED <<pe, in_file_name, cfg, idx, newest_file_path, successful_deobs,
                   failed_deobs, error_type, classified, result, malformed, child,
                   calls, last_run>>

Next ==
    \/ PrecheckPEFormatError
    \/ PrecheckOptOut
    \/ EnterTempDir
    \/ SkipDeob
    \/ DeobSucceeded
    \/ DeobFailed
    \/ DeobRaised
    \/ AddChild
    \/ ReturnOptOut
    \/ ReturnMalformed
    \/ ReturnCompletedEmpty
    \/ ExitTempDir

Spec == Init /\ [][Next]_vars

(***************************************************************************)
(* Properties                                                              *)
(***************************************************************************)
NumDeobs == Len(AVAILABLE_DEOBFUSCATORS)
Entered == idx >= 1
AllResolved == idx > NumDeobs
CallSucceeded(c) == c.res.kind = "return" /\ c.res.path # NoPath
CallFailed(c) == c.res.kind = "return" /\ c.res.path = NoPath
CallRaised(c) == c.res.kind = "raise"
SucceededCalls == {i \in DOMAIN calls : CallSucceeded(calls[i])}
FailedCalls == {i \in DOMAIN calls : CallFailed(calls[i])}
CalledKeys == [i \in DOMAIN calls |-> calls[i].deob]
NoDuplicates(s) == \A i, j \in DOMAIN s : s[i] = s[j] => i = j
PermutesRegistered(c) == Len(c) = NumDeobs /\ Range(c) = RegisteredKeys
LastCall == calls[Len(calls)]

\* C1: only deobfuscators whose key is in the configuration are invoked, and
\* when the configuration is a permutation of the registered keys the
\* invocations happen in the order of the configuration list.
C1_RunInConfigurationOrder ==
    /\ \A i \in DOMAIN calls : calls[i].deob \in Range(cfg)
    /\ PermutesRegistered(cfg) => \A i \in DOMAIN calls : calls[i].deob = cfg[i]

\* The path returned by the most recent call that succeeded, the scratch
\* copy if there is none.
LastSuccessfulArtifact ==
    IF SucceededCalls = {} THEN in_file_name
    ELSE calls[Max(SucceededCalls)].res.path

\* C2: once the scratch copy exists, newest_file_path is the path returned
\* by the most recent deobfuscator that succeeded, or the scratch copy if
\* none has; failed calls do not move it, and this still holds after the loop.
C2_NewestIsLastSuccess ==
    Entered => newest_file_path = LastSuccessfulArtifact

C2_Witness ==
    /\ AllResolved
    /\ \E i, j \in DOMAIN calls :
          i < j /\ CallSucceeded(calls[i]) /\ CallFailed(calls[j])
    /\ newest_file_path # in_file_name

SucceededNames ==
    LET ok(c) == CallSucceeded(c)
        sel == SelectSeq(calls, ok)
    IN  [i \in DOMAIN sel |-> display_name(sel[i].deob)]

FailedKeys == {failed_deobs[i][1] : i \in DOMAIN failed_deobs}

Classify(entry) ==
    LET mappings == regex_exception_mappings(entry[1])
        hits == {i \in DOMAIN mappings : search(mappings[i].regex_pattern, entry[2])}
    IN  IF hits = {} THEN None
        ELSE mappings[CHOOSE i \in hits : \A j \in hits : i <= j].fail_type

LastMatch(failed) ==
    LET hits == {i \in DOMAIN failed : Classify(failed[i]) # None}
    IN  IF hits = {} THEN None ELSE Classify(failed[Max(hits)])

\* C4: when no deobfuscator succeeded, the overall classification is the
\* fail type of the last failed deobfuscator, in execution order, whose
\* message matches one of its own patterns, None if no failed one matches.
C4_LastMatchWins ==
    classified => error_type = LastMatch(failed_deobs)

C4_Witness ==
    /\ classified
    /\ \E i, j \in DOMAIN failed_deobs :
          /\ i < j
          /\ Classify(failed_deobs[i]) = NotValidDotnetFile
          /\ Classify(failed_deobs[j]) = DotnetFileContentLengthMismatch
          /\ \A n \in DOMAIN failed_deobs : n > j => Classify(failed_deobs[n]) = None
    /\ error_type = DotnetFileContentLengthMismatch

ExitedZeroWithoutOutput ==
    /\ calls # <<>>
    /\ pc \in {"loop", "exit_with"}
    /\ last_run.started
    /\ last_run.elapsed <= TIMEOUT
    /\ last_run.returncode = 0
    /\ expected_out_file_loc(LastCall.deob, LastCall.in_file_path) \notin files

\* C5: a process that exits with status 0 without its expected output file
\* existing makes _deobfuscate return (None, message) where the message says
\* that the expected output file was not produced.
C5_MissingOutputReported ==
    ExitedZeroWithoutOutput =>
        /\ LastCall.res.kind = "return"
        /\ LastCall.res.path = NoPath
        /\ LastCall.res.error.text = MissingOutputText

\* C6: no failure of a deobfuscator invocation leaves _deobfuscate as an
\* exception; every call returns a result.
C6_FailuresAlwaysReturned ==
    \A i \in DOMAIN calls : calls[i].res.kind = "return"

\* C7: a process that runs past the timeout makes the call fail with the
\* timed out message, newest_file_path stays where it was, and the loop
\* goes on to the next deobfuscator.
C7_TimeoutIsLocalFailure ==
    [][(calls' # calls /\ last_run'.started /\ last_run'.elapsed > TIMEOUT) =>
          /\ failed_deobs' = Append(failed_deobs,
                <<AVAILABLE_DEOBFUSCATORS[idx],
                  FailedMessage(AVAILABLE_DEOBFUSCATORS[idx], ErrorMessage(TimedOutText, {}))>>)
          /\ successful_deobs' = successful_deobs
          /\ newest_file_path' = newest_file_path
          /\ pc' = "loop"
          /\ idx' = idx + 1
          /\ result' = NoState]_vars

C7_Witness ==
    \E i, j \in DOMAIN calls :
        /\ i < j
        /\ CallFailed(calls[i])
        /\ calls[i].res.error.text = TimedOutText
        /\ expected_out_file_loc(calls[i].deob, calls[i].in_file_path) \in files
        /\ calls[j].in_file_path = calls[i].in_file_path

\* C8: in a run that passed the precheck every registered deobfuscator whose
\* key is in the configuration has been invoked exactly once when the run
\* is over.
C8_EachConfiguredOnce ==
    (pc = "done" /\ Entered) =>
        \A k \in RegisteredKeys \cap Range(cfg) :
            Cardinality({i \in DOMAIN calls : calls[i].deob = k}) = 1

AllFailedLabels == {"OPT_OUT", "COMPLETED_EMPTY"}

C11_EmptySelection ==
    (Entered /\ Range(cfg) \cap RegisteredKeys = {}) =>
        /\ calls = <<>>
        /\ failed_deobs = <<>>
        /\ successful_deobs = <<>>
        /\ child = NoChild
        /\ ~malformed
        /\ error_type = None
        /\ result.label \notin {"OPT_OUT", "EXCEPTION", "COMPLETED"}
        /\ pc \in {"exit_with", "done"} =>
              result = State("COMPLETED_EMPTY", "no-deobfuscation-processed",
                             "Could not run any of the deobfuscators.")

C11_Witness ==
    /\ cfg = <<>>
    /\ pc = "done"
    /\ Entered
    /\ result.label = "COMPLETED_EMPTY"

\* The configuration without the keys of no registered deobfuscator.
StripUnknown(c) ==
    LET known(k) == k \in RegisteredKeys
    IN  SelectSeq(c, known)

\* The registered deobfuscators among the first n whose key is in c.
InvokedUpTo(c, n) ==
    LET listed(k) == \E i \in DOMAIN c : c[i] = k
    IN  SelectSeq(SubSeq(AVAILABLE_DEOBFUSCATORS, 1, n), listed)

FailedFromCalls ==
    LET failed(c) == CallFailed(c)
        sel == SelectSeq(calls, failed)
    IN  [i \in DOMAIN sel |-> <<sel[i].deob, FailedMessage(sel[i].deob, sel[i].res.error)>>]

\* What a finished run returns, as a function of the invocations alone.
OutcomeOfCalls ==
    IF \E i \in DOMAIN calls : CallRaised(calls[i])
    THEN [result |-> State("EXCEPTION", "TypeError", None), child |-> NoChild,
          malformed |-> FALSE]
    ELSE IF SucceededCalls # {}
    THEN [result |-> State("COMPLETED", None, None),
          child |-> [data_file |-> LastSuccessfulArtifact, action |-> "deobfuscated",
                     deobfuscated_by |-> SucceededNames],
          malformed |-> FALSE]
    ELSE IF LastMatch(FailedFromCalls) = NotValidDotnetFile
    THEN [result |-> State("OPT_OUT", None,
                           "Deobfuscators detect file as not a valid dotnet file."),
          child |-> NoChild, malformed |-> FALSE]
    ELSE IF LastMatch(FailedFromCalls) = DotnetFileContentLengthMismatch
    THEN [result |-> State("COMPLETED", None, None), child |-> NoChild, malformed |-> TRUE]
    ELSE [result |-> State("COMPLETED_EMPTY", "no-deobfuscation-processed",
                           "Could not run any of the deobfuscators."),
          child |-> NoChild, malformed |-> FALSE]

\* C12: keys of no registered deobfuscator in the configuration are skipped
\* without error: the deobfuscators invoked are those the configuration
\* without such keys selects, the unknown key is never invoked and raises
\* nothing, and the outcome of the run follows from the invocations alone.
C12_UnknownKeysIgnored ==
    Entered =>
        /\ CalledKeys = InvokedUpTo(StripUnknown(cfg),
                                    IF result.label = "EXCEPTION" THEN idx ELSE idx - 1)
        /\ \A i \in DOMAIN calls : calls[i].deob # UnknownKey
        /\ result.label = "EXCEPTION" => calls # <<>> /\ CallRaised(LastCall)
        /\ pc \in {"exit_with", "done"} =>
              LET outcome == OutcomeOfCalls
              IN  /\ result = outcome.result
                  /\ child = outcome.child
                  /\ malformed = outcome.malformed

C12_Witness ==
    /\ pc = "done"
    /\ Len(cfg) = 3
    /\ cfg[1] = UnknownKey
    /\ cfg[3] = UnknownKey
    /\ cfg[2] \in RegisteredKeys
    /\ Len(calls) = 1
    /\ child # NoChild

\* C13: a file with fewer than 15 data directories or with VirtualAddress 0
\* in entry 14 gives OPT_OUT, a file pefile cannot parse gives
\* ERROR_EXCEPTION; in both cases no deobfuscator is invoked, no scratch
\* directory or copy is made and no child is added.
C13_PrecheckShortCircuits ==
    /\ (~pe.parsed \/ pe.num_dirs < 15 \/ pe.va14 = 0) =>
          /\ calls = <<>>
          /\ ~cur_dir_exists
          /\ files = {}
          /\ newest_file_path = NoPath
          /\ child = NoChild
          /\ pc \in {"precheck", "done"}
    /\ (pc = "done" /\ pe.parsed /\ (pe.num_dirs < 15 \/ pe.va14 = 0)) =>
          result = State("OPT_OUT", None, "Not a .NET assembly")
    /\ (pc = "done" /\ ~pe.parsed) =>
          /\ result.label = "ERROR_EXCEPTION"
          /\ result.failure_name = "Error while parsing PE"

C13_Witness ==
    /\ pc = "done"
    /\ pe.parsed
    /\ pe.num_dirs >= 15
    /\ pe.va14 = 0
    /\ result.label = "OPT_OUT"
    /\ cfg # <<>>

\* C14: the scratch directory is created once, when the run enters the with
\* block, exists while the run is inside it, and is gone with all its files
\* whenever execute is over: after the child, after each of the three
\* returns, and after an exception from a deobfuscator.
C14_ScratchDirAlwaysRemoved ==
    [][/\ (cur_dir_exists' /\ ~cur_dir_exists) => (pc = "precheck" /\ idx = 0 /\ pc' = "loop")
       /\ pc' \in {"loop", "exit_with"} => cur_dir_exists'
       /\ pc' = "done" => (~cur_dir_exists' /\ files' = {})]_vars

C14_Witness ==
    /\ pc = "done"
    /\ Entered
    /\ result.label = "EXCEPTION"
    /\ ~cur_dir_exists
    /\ files = {}

\* C15: every result a deobfuscator call returned has exactly one side:
\* a path and no error, or no path and an error message with a text; the
\* error text put into failed_deobs is never None.
C15_ExactlyOneSide ==
    /\ \A i \in DOMAIN calls :
          calls[i].res.kind = "return" =>
              /\ (calls[i].res.path # NoPath) # (calls[i].res.error # NoError)
              /\ calls[i].res.path = NoPath => calls[i].res.error.text # None
    /\ \A i \in DOMAIN failed_deobs : failed_deobs[i][2].error.text # None

C15_Witness ==
    /\ pc = "done"
    /\ SucceededCalls # {}
    /\ FailedCalls # {}
    /\ \E i \in DOMAIN failed_deobs : failed_deobs[i][2].error.text = OSErrorText
    /\ \E i \in DOMAIN failed_deobs : failed_deobs[i][2].error.text = UnexpectedErrorText

ExpectedOf(c) == expected_out_file_loc(c.deob, c.in_file_path)

\* C16: the expected output path of each deobfuscator that runs differs from
\* its input path, from every file in the scratch directory at that moment
\* and from the expected output path of every earlier one; a call succeeds
\* only with a file its own process wrote.
C16_DistinctOutputPaths ==
    [][calls' # calls =>
          LET c == calls'[Len(calls')]
          IN  /\ ExpectedOf(c) # c.in_file_path
              /\ ExpectedOf(c) \notin files
              /\ \A i \in DOMAIN calls : ExpectedOf(calls[i]) # ExpectedOf(c)
              /\ CallSucceeded(c) => (last_run'.wrote /\ c.res.path = ExpectedOf(c))]_vars

C16_Witness ==
    /\ Len(calls) = NumDeobs
    /\ Cardinality(files) = NumDeobs + 1
    /\ \E i \in DOMAIN calls : CallFailed(calls[i]) /\ ExpectedOf(calls[i]) \in files
    /\ \E i \in DOMAIN calls : CallSucceeded(calls[i])

\* C17: a process that exits in time with a non-zero status makes the call
\* fail with the message that embeds its stderr and stdout, also when the
\* expected output file exists; newest_file_path does not move to that file.
C17_NonZeroExitFails ==
    [][(calls' # calls /\ last_run'.started /\ last_run'.elapsed <= TIMEOUT
          /\ last_run'.returncode # 0) =>
          LET c == calls'[Len(calls')]
          IN  /\ c.res = Returned(NoPath, ErrorMessage(UnexpectedErrorText, last_run'.output))
              /\ failed_deobs' = Append(failed_deobs,
                                        <<c.deob, FailedMessage(c.deob, c.res.error)>>)
              /\ successful_deobs' = successful_deobs
              /\ newest_file_path' = newest_file_path
              /\ newest_file_path' # ExpectedOf(c)]_vars

C17_Witness ==
    /\ \E i \in DOMAIN calls :
          /\ CallFailed(calls[i])
          /\ calls[i].res.error.text = UnexpectedErrorText
          /\ ExpectedOf(calls[i]) \in files
    /\ \E i \in DOMAIN calls :
          /\ calls[i].res.error.text = UnexpectedErrorText
          /\ calls[i].res.error.embedded # {}

\* The failure kind of one failed deobfuscator, from its own patterns in the
\* order its class lists them.
OwnKind(entry) ==
    LET seen == entry[2].error.embedded
    IN  CASE entry[1] = De4dotCexKey ->
                IF FormatInvalid \in seen THEN NotValidDotnetFile ELSE None
          [] entry[1] = ConfuserExSSDKey ->
                IF FormatInvalid \in seen THEN NotValidDotnetFile
                ELSE IF NotEnoughBytes \in seen THEN DotnetFileContentLengthMismatch
                ELSE None
          [] entry[1] = UnscramblerKey ->
                IF NoMetadataDirectory \in seen THEN NotValidDotnetFile
                ELSE IF FileOffsetOutOfRange \in seen THEN DotnetFileContentLengthMismatch
                ELSE None

\* C18: each failed deobfuscator is classified by its own patterns only, the
\* first listed pattern that occurs in its message deciding (NotValidDotnetFile
\* when both of its patterns occur); a message with none of its own patterns
\* leaves it unclassified whatever other patterns occur in it, and such a
\* later failure keeps the classification an earlier one produced.
C18_OwnPatternsFirstMatch ==
    classified =>
        /\ \A i \in DOMAIN failed_deobs :
              (OwnKind(failed_deobs[i]) # None
                 /\ \A j \in DOMAIN failed_deobs : j > i => OwnKind(failed_deobs[j]) = None)
              => error_type = OwnKind(failed_deobs[i])
        /\ (\A i \in DOMAIN failed_deobs : OwnKind(failed_deobs[i]) = None) => error_type = None

C18_Witness ==
    /\ classified
    /\ Len(failed_deobs) = NumDeobs
    /\ failed_deobs[1][2].error.embedded = {NoMetadataDirectory, FileOffsetOutOfRange}
    /\ failed_deobs[2][2].error.embedded = {NoMetadataDirectory}
    /\ failed_deobs[3][2].error.embedded = {NotEnoughBytes}
    /\ error_type = NotValidDotnetFile

ConfuserExSuffix == <<"Cleaned", ".", "exe">>

\* C19 as stated: the output path of ConfuserEx-Static-String-Decryptor is
\* the input path with the fixed text inserted before its extension.
C19_SuffixBeforeExtension ==
    \A i \in DOMAIN calls :
        (calls[i].deob = ConfuserExSSDKey /\ CallSucceeded(calls[i])) =>
            calls[i].res.path =
                splitext(calls[i].in_file_path)[1] \o ConfuserExSuffix
                    \o splitext(calls[i].in_file_path)[2]

\* C19 amended: the output path of ConfuserEx-Static-String-Decryptor is the
\* whole input path, extension included, followed by the fixed text; it is
\* the insertion before the extension only for an input without extension.
C19_SuffixAfterFullName ==
    \A i \in DOMAIN calls :
        (calls[i].deob = ConfuserExSSDKey /\ CallSucceeded(calls[i])) =>
            /\ calls[i].res.path = calls[i].in_file_path \o ConfuserExSuffix
            /\ (calls[i].res.path =
                    splitext(calls[i].in_file_path)[1] \o ConfuserExSuffix
                        \o splitext(calls[i].in_file_path)[2])
               <=> splitext(calls[i].in_file_path)[2] = <<>>

C19_Witness ==
    \E i \in DOMAIN calls :
        /\ calls[i].deob = ConfuserExSSDKey
        /\ CallSucceeded(calls[i])
        /\ splitext(calls[i].in_file_path)[2] # <<>>
        /\ calls[i].res.path \in files

====
